---- MODULE Spec2Model ----
(***************************************************************************)
(* Model of Tools/codegen/freeze.py: the literal encoder                   *)
(* (make_string_literal) and the layout serializer (class Printer,         *)
(* generate).                                                              *)
(*                                                                         *)
(* Text is modelled as TLA+ strings, bytes as integers 0..255, a Python    *)
(* str as a sequence of code points.  The output file is the sequence of   *)
(* lines written by Printer.write, each with its indentation and its       *)
(* newline.  A Printer is the record                                       *)
(*   [level, file, exc, fuel, scopes, depths]                              *)
(* where exc is the exception in flight ("none" when there is none), fuel  *)
(* is the number of lines the file still accepts before writelines raises  *)
(* OSError, scopes is a history of the indent()/block() scopes left and    *)
(* depths is the history of self.level at each line written.               *)
(* Every method is an operator from Printers to Printers; a statement      *)
(* that runs with an exception in flight is skipped, as Python does.       *)
(***************************************************************************)
EXTENDS Integers, Sequences, FiniteSets, TLC

VARIABLES pc, call, level, file, exc, fuel, scopes, depths, literal

vars == <<pc, call, level, file, exc, fuel, scopes, depths, literal>>

(***************************************************************************)
(* Bounds of the model.                                                    *)
(***************************************************************************)
MaxLiteralLen == 3
MaxBytesLen == 2
MaxStrLen == 2
MaxScalar == 1
MaxFuel == 52

(***************************************************************************)
(* Characters.  PrintableLow and PrintableHigh are the printable ASCII     *)
(* ranges 0x20..0x5F and 0x61..0x7E in code order, so Chr(i) is            *)
(* bytes([i]).decode("ascii") for a printable i.  The grave accent 0x60    *)
(* cannot be written in a TLA+ string; no alphabet below contains it.      *)
(***************************************************************************)
PrintableLow == " !\"#$%&'()*+,-./0123456789:;<=>?@ABCDEFGHIJKLMNOPQRSTUVWXYZ[\\]^_"

PrintableHigh == "abcdefghijklmnopqrstuvwxyz{|}~"

HexDigits == "0123456789abcdef"

CharAt(s, i) == SubSeq(s, i, i)

PrintableCodes == (32..126) \ {96}

Chr(i) == IF i < 96 THEN CharAt(PrintableLow, i - 31) ELSE CharAt(PrintableHigh, i - 96)

Ord(c) == CHOOSE i \in PrintableCodes : Chr(i) = c

RECURSIVE Join(_)
Join(parts) == IF parts = <<>> THEN "" ELSE Head(parts) \o Join(Tail(parts))

RECURSIVE Repeat(_, _)
Repeat(s, n) == IF n <= 0 THEN "" ELSE s \o Repeat(s, n - 1)

\* bytes.isascii()
isascii(b) == \A i \in 1..Len(b) : b[i] < 128

\* str.isprintable() of an ASCII string: every character in 0x20..0x7E
isprintable(b) == \A i \in 1..Len(b) : b[i] >= 32 /\ b[i] <= 126

\* b.decode("ascii") of printable ASCII bytes
decode_ascii(b) == Join([i \in 1..Len(b) |-> Chr(b[i])])

\* f"\\x{i:02x}"
HexEscape(i) == "\\x" \o CharAt(HexDigits, (i \div 16) + 1) \o CharAt(HexDigits, (i % 16) + 1)

make_string_literal(b) ==
    LET res0 == <<"\"">>
        res1 == IF isascii(b) /\ isprintable(b)
                THEN Append(res0, decode_ascii(b))
                ELSE res0 \o [i \in 1..Len(b) |-> HexEscape(b[i])]
        res2 == Append(res1, "\"")
    IN Join(res2)

(***************************************************************************)
(* The host language's string-literal rules (C11 6.4.5 and 6.4.4.4), used  *)
(* to read a literal back.  ParseCLiteral(text) is the array the literal   *)
(* initialises, terminator included, or ParseError when text is not a      *)
(* sequence of well-formed adjacent string literals.  Adjacent literals    *)
(* are concatenated; a hexadecimal escape takes every hex digit that       *)
(* follows it; an octal escape takes up to three octal digits.             *)
(***************************************************************************)
ParseError == <<-1>>

IsHexDigit(c) == \E d \in 1..16 : CharAt(HexDigits, d) = c \/ CharAt("0123456789ABCDEF", d) = c

HexValue(c) == (CHOOSE d \in 1..16 : CharAt(HexDigits, d) = c \/ CharAt("0123456789ABCDEF", d) = c) - 1

IsOctDigit(c) == \E d \in 1..8 : CharAt("01234567", d) = c

SimpleEscapes == [c \in {"'", "\"", "?", "\\", "a", "b", "f", "n", "r", "t", "v"} |->
    CASE c = "'" -> 39 [] c = "\"" -> 34 [] c = "?" -> 63 [] c = "\\" -> 92
      [] c = "a" -> 7 [] c = "b" -> 8 [] c = "f" -> 12 [] c = "n" -> 10
      [] c = "r" -> 13 [] c = "t" -> 9 [] c = "v" -> 11]

\* the number of hex digits of text starting at position i
RECURSIVE HexRun(_, _)
HexRun(text, i) ==
    IF i <= Len(text) /\ IsHexDigit(CharAt(text, i)) THEN 1 + HexRun(text, i + 1) ELSE 0

\* the number of octal digits of text starting at position i, at most max
RECURSIVE OctRun(_, _, _)
OctRun(text, i, max) ==
    IF max > 0 /\ i <= Len(text) /\ IsOctDigit(CharAt(text, i))
    THEN 1 + OctRun(text, i + 1, max - 1) ELSE 0

\* the value of the n digits of text starting at position i, in the given base
RECURSIVE DigitsValue(_, _, _, _)
DigitsValue(text, i, n, base) ==
    IF n = 0 THEN 0
    ELSE DigitsValue(text, i, n - 1, base) * base + HexValue(CharAt(text, i + n - 1))

\* inside a literal, at position i, with the bytes read so far in acc
RECURSIVE ParseBody(_, _, _)
\* between literals, at position i
RECURSIVE ParseNext(_, _, _)
ParseBody(text, i, acc) ==
    IF i > Len(text) THEN ParseError
    ELSE LET c == CharAt(text, i) IN
      IF c = "\"" THEN ParseNext(text, i + 1, acc)
      ELSE IF c = "\n" THEN ParseError
      ELSE IF c # "\\" THEN ParseBody(text, i + 1, Append(acc, Ord(c)))
      ELSE IF i + 1 > Len(text) THEN ParseError
      ELSE LET e == CharAt(text, i + 1) IN
        IF e \in DOMAIN SimpleEscapes
        THEN ParseBody(text, i + 2, Append(acc, SimpleEscapes[e]))
        ELSE IF e = "x"
        THEN LET n == HexRun(text, i + 2)
                 v == DigitsValue(text, i + 2, n, 16)
             IN IF n = 0 \/ v > 255 THEN ParseError
                ELSE ParseBody(text, i + 2 + n, Append(acc, v))
        ELSE IF IsOctDigit(e)
        THEN LET n == OctRun(text, i + 1, 3)
                 v == DigitsValue(text, i + 1, n, 8)
             IN IF v > 255 THEN ParseError
                ELSE ParseBody(text, i + 1 + n, Append(acc, v))
        ELSE ParseError

ParseNext(text, i, acc) ==
    IF i > Len(text) THEN Append(acc, 0)
    ELSE IF CharAt(text, i) = "\"" THEN ParseBody(text, i + 1, acc)
    ELSE ParseError

ParseCLiteral(text) ==
    IF Len(text) >= 1 /\ CharAt(text, 1) = "\"" THEN ParseBody(text, 2, <<>>) ELSE ParseError

(***************************************************************************)
(* str.encode("utf8", errors="surrogatepass"): one to four bytes per code  *)
(* point; a lone surrogate is encoded as any other three-byte code point.  *)
(***************************************************************************)
\* errors="replace" instead of "surrogatepass": a lone surrogate becomes "?"
encode_char_ReplaceSurrogates(c) ==
    IF c < 128 THEN <<c>>
    ELSE IF c < 2048 THEN <<192 + (c \div 64), 128 + (c % 64)>>
    ELSE IF c >= 55296 /\ c <= 57343 THEN <<63>>
    ELSE IF c < 65536 THEN <<224 + (c \div 4096), 128 + ((c \div 64) % 64), 128 + (c % 64)>>
    ELSE <<240 + (c \div 262144), 128 + ((c \div 4096) % 64), 128 + ((c \div 64) % 64), 128 + (c % 64)>>

encode_char(c) ==
    IF c < 128 THEN <<c>>
    ELSE IF c < 2048 THEN <<192 + (c \div 64), 128 + (c % 64)>>
    ELSE IF c < 65536 THEN <<224 + (c \div 4096), 128 + ((c \div 64) % 64), 128 + (c % 64)>>
    ELSE <<240 + (c \div 262144), 128 + ((c \div 4096) % 64), 128 + ((c \div 64) % 64), 128 + (c % 64)>>

RECURSIVE encode_utf8(_)
encode_utf8(s) == IF s = <<>> THEN <<>> ELSE encode_char(Head(s)) \o encode_utf8(Tail(s))

(***************************************************************************)
(* class Printer.                                                          *)
(***************************************************************************)
NoFailure == -1

\* Printer.__init__'s two assignments; capacity is the state of the file object
NewPrinter(capacity) ==
    [level |-> 0, file |-> <<>>, exc |-> "none", fuel |-> capacity, scopes |-> <<>>, depths |-> <<>>]

\* two spaces of indentation per level instead of four
write_TwoSpaces(p, arg) ==
    IF p.exc # "none" THEN p
    ELSE IF p.fuel = 0 THEN [p EXCEPT !.exc = "OSError"]
    ELSE [p EXCEPT !.file = Append(@, Repeat("  ", p.level) \o arg \o "\n"),
                   !.depths = Append(@, p.level),
                   !.fuel = IF @ > 0 THEN @ - 1 ELSE @]

write(p, arg) ==
    IF p.exc # "none" THEN p
    ELSE IF p.fuel = 0 THEN [p EXCEPT !.exc = "OSError"]
    ELSE [p EXCEPT !.file = Append(@, Repeat("    ", p.level) \o arg \o "\n"),
                   !.depths = Append(@, p.level),
                   !.fuel = IF @ > 0 THEN @ - 1 ELSE @]

Printer__init__(capacity) == write(write(NewPrinter(capacity), "#include <Python.h>"), "")

\* a scope that was entered at depth entered and left at depth left
ScopeLeft(p, scope, entered) ==
    [p EXCEPT !.scopes = Append(@, [scope |-> scope, entered |-> entered, left |-> p.level,
                                    raised |-> p.exc # "none"])]

\* indent(), up to the yield
indent_enter(p) == [p EXCEPT !.level = @ + 1]

\* a finally clause that runs only when the body completes
indent_finally_OnReturnOnly(save_level, q) ==
    IF q.exc = "none" THEN [q EXCEPT !.level = save_level] ELSE q

\* indent(), the finally clause: runs whether or not the body raised
indent_finally(save_level, q) == [q EXCEPT !.level = save_level]

\* block(), up to the with statement: the opening token
block_open(p, prefix) == write(p, prefix \o " {")

\* block(), after the with statement: the closing token
block_close(p, suffix) == write(p, "}" \o suffix)

\* "with self.indent(): Body": indent_enter, the body, then indent_finally
indent(p, Body(_)) ==
    IF p.exc # "none" THEN p
    ELSE LET save_level == p.level
         IN ScopeLeft(indent_finally(save_level, Body(indent_enter(p))), "indent", save_level)

\* "with self.block(prefix, suffix): Body": block_open, the body inside
\* indent(), then block_close unless an exception is in flight
block(p, prefix, suffix, Body(_)) ==
    IF p.exc # "none" THEN p
    ELSE ScopeLeft(block_close(indent(block_open(p, prefix), Body), suffix), "block", p.level)

\* the reference count of a fresh heap object instead of the immortal one
object_head_RefcntOne(p, typename) ==
    block(p, ".ob_base =", ",", LAMBDA q :
        LET q1 == write(q, ".ob_refcnt = 1,")
        IN write(q1, ".ob_type = &" \o typename \o ","))

object_head(p, typename) ==
    block(p, ".ob_base =", ",", LAMBDA q :
        LET q1 == write(q, ".ob_refcnt = 999999999,")
        IN write(q1, ".ob_type = &" \o typename \o ","))

object_var_head(p, typename, size) ==
    block(p, ".ob_base =", ",", LAMBDA q :
        LET q1 == object_head(q, typename)
        IN write(q1, ".ob_size = " \o ToString(size) \o ","))

field(p, obj, name) == write(p, "." \o name \o " = " \o ToString(obj[name]) \o ",")

\* the array declared without the slot of the terminator
generate_bytes_NoTerminatorSlot(p, name, b) ==
    LET p1 == write(p, "static")
        p2 == indent(p1, LAMBDA q :
                block(q, "struct", "", LAMBDA r :
                    LET r1 == write(r, "PyObject_VAR_HEAD")
                        r2 == write(r1, "Py_hash_t ob_shash;")
                    IN write(r2, "char ob_sval[" \o ToString(Len(b)) \o "];")))
    IN block(p2, name \o " =", ";", LAMBDA q :
        LET q1 == object_var_head(q, "PyBytes_Type", Len(b) + 1)
            q2 == write(q1, ".ob_shash = -1,")
        IN write(q2, ".ob_sval = " \o make_string_literal(b) \o ","))

generate_bytes(p, name, b) ==
    LET p1 == write(p, "static")
        p2 == indent(p1, LAMBDA q :
                block(q, "struct", "", LAMBDA r :
                    LET r1 == write(r, "PyObject_VAR_HEAD")
                        r2 == write(r1, "Py_hash_t ob_shash;")
                    IN write(r2, "char ob_sval[" \o ToString(Len(b) + 1) \o "];")))
    IN block(p2, name \o " =", ";", LAMBDA q :
        LET q1 == object_var_head(q, "PyBytes_Type", Len(b) + 1)
            q2 == write(q1, ".ob_shash = -1,")
        IN write(q2, ".ob_sval = " \o make_string_literal(b) \o ","))

\* utf8_length counting the terminator of the literal
generate_unicode_CountsTerminator(p, name, s) ==
    IF p.exc # "none" THEN p
    ELSE LET b == encode_utf8(s) IN
      IF Len(s) # Len(b) THEN [p EXCEPT !.exc = "AssertionError"]
      ELSE block(p, "static PyUnicodeObject " \o name \o " =", ";", LAMBDA q :
        LET q1 == block(q, "._base =", ",", LAMBDA r :
                LET r1 == block(r, "._base =", ",", LAMBDA t :
                        LET t1 == object_head(t, "PyUnicode_Type")
                            t2 == write(t1, ".length = " \o ToString(Len(s)) \o ",")
                            t3 == write(t2, ".hash = -1,")
                        IN block(t3, ".state =", ",", LAMBDA u :
                            LET u1 == write(u, ".kind = 1,")
                                u2 == write(u1, ".compact = 1,")
                            IN write(u2, ".ready = 1,")))
                    r2 == write(r1, ".utf8_length = " \o ToString(Len(b) + 1) \o ",")
                    r3 == write(r2, ".utf8 = " \o make_string_literal(b) \o ",")
                IN write(r3, ".wstr_length = " \o ToString(Len(s)) \o ","))
        IN q1)

generate_unicode(p, name, s) ==
    IF p.exc # "none" THEN p
    ELSE LET b == encode_utf8(s) IN
      IF Len(s) # Len(b) THEN [p EXCEPT !.exc = "AssertionError"]
      ELSE block(p, "static PyUnicodeObject " \o name \o " =", ";", LAMBDA q :
        LET q1 == block(q, "._base =", ",", LAMBDA r :
                LET r1 == block(r, "._base =", ",", LAMBDA t :
                        LET t1 == object_head(t, "PyUnicode_Type")
                            t2 == write(t1, ".length = " \o ToString(Len(s)) \o ",")
                            t3 == write(t2, ".hash = -1,")
                        IN block(t3, ".state =", ",", LAMBDA u :
                            LET u1 == write(u, ".kind = 1,")
                                u2 == write(u1, ".compact = 1,")
                            IN write(u2, ".ready = 1,")))
                    r2 == write(r1, ".utf8_length = " \o ToString(Len(b)) \o ",")
                    r3 == write(r2, ".utf8 = " \o make_string_literal(b) \o ",")
                IN write(r3, ".wstr_length = " \o ToString(Len(s)) \o ","))
        IN q1)

\* the unit emitted before the objects it refers to
generate_code_UnitFirst(p, name, code) ==
    LET p1 == block(p, "struct PyCodeObject " \o name \o " =", ";", LAMBDA q :
                LET q1 == object_head(q, "PyCode_Type")
                    q2 == field(q1, code, "co_flags")
                    q3 == field(q2, code, "co_argcount")
                    q4 == field(q3, code, "co_posonlyargcount")
                    q5 == field(q4, code, "co_kwonlyargcount")
                    q6 == field(q5, code, "co_stacksize")
                    q7 == field(q6, code, "co_firstlineno")
                    q8 == write(q7, ".co_code = (PyObject *) &" \o name \o "_code" \o ",")
                IN write(q8, ".co_name = (PyObject *) &" \o name \o "_name" \o ","))
        p2 == generate_bytes(p1, name \o "_code", code.co_code)
    IN generate_unicode(p2, name \o "_name", code.co_name)

\* co_posonlyargcount emitted before co_argcount
generate_code_SwappedCounts(p, name, code) ==
    LET p1 == generate_bytes(p, name \o "_code", code.co_code)
        p2 == generate_unicode(p1, name \o "_name", code.co_name)
    IN block(p2, "struct PyCodeObject " \o name \o " =", ";", LAMBDA q :
        LET q1 == object_head(q, "PyCode_Type")
            q2 == field(q1, code, "co_flags")
            q3 == field(q2, code, "co_posonlyargcount")
            q4 == field(q3, code, "co_argcount")
            q5 == field(q4, code, "co_kwonlyargcount")
            q6 == field(q5, code, "co_stacksize")
            q7 == field(q6, code, "co_firstlineno")
            q8 == write(q7, ".co_code = (PyObject *) &" \o name \o "_code" \o ",")
        IN write(q8, ".co_name = (PyObject *) &" \o name \o "_name" \o ","))

generate_code(p, name, code) ==
    LET p1 == generate_bytes(p, name \o "_code", code.co_code)
        p2 == generate_unicode(p1, name \o "_name", code.co_name)
    IN block(p2, "struct PyCodeObject " \o name \o " =", ";", LAMBDA q :
        LET q1 == object_head(q, "PyCode_Type")
            q2 == field(q1, code, "co_flags")
            q3 == field(q2, code, "co_argcount")
            q4 == field(q3, code, "co_posonlyargcount")
            q5 == field(q4, code, "co_kwonlyargcount")
            q6 == field(q5, code, "co_stacksize")
            q7 == field(q6, code, "co_firstlineno")
            q8 == write(q7, ".co_code = (PyObject *) &" \o name \o "_code" \o ",")
        IN write(q8, ".co_name = (PyObject *) &" \o name \o "_name" \o ","))

(***************************************************************************)
(* Inputs.                                                                 *)
(***************************************************************************)
\* printable letters, the space, the double quote, the backslash, the zero
\* byte and a byte above 0x7F
ByteAlphabet == {0, 32, 34, 92, 97, 128}

Buffers(n) == UNION {[1..k -> ByteAlphabet] : k \in 0..n}

\* the bytes of the bytecode given to the Printer: one printable, one not
CodeAlphabet == {97, 128}

CodeBuffers(n) == UNION {[1..k -> CodeAlphabet] : k \in 0..n}

\* "a" and code points of two and three (a lone surrogate) UTF-8 bytes
CodePoints == {97, 233, 55296}

\* "<module>", the name of a unit compiled in "exec" mode
ModuleName == <<60, 109, 111, 100, 117, 108, 101, 62>>

\* one code point of four UTF-8 bytes
Emoji == <<128512>>

Strings(n) == UNION {[1..k -> CodePoints] : k \in 0..n} \cup {ModuleName, Emoji}

SymbolNames == {"toplevel", "m"}

\* the attributes generate_code reads off a types.CodeType; k = 0 is the
\* metadata of a module, the others those of functions
CodeUnit(b, s, k) ==
    [co_code |-> b, co_name |-> s,
     co_flags |-> IF k = 0 THEN 64 ELSE 67,
     co_argcount |-> IF k = 0 THEN 0 ELSE k + 2,
     co_posonlyargcount |-> IF k = 0 THEN 0 ELSE k,
     co_kwonlyargcount |-> IF k = 0 THEN 0 ELSE k + 1,
     co_stacksize |-> IF k = 0 THEN 1 ELSE k + 3,
     co_firstlineno |-> IF k = 0 THEN 1 ELSE k + 4]

CodeUnits == {CodeUnit(b, s, k) : b \in CodeBuffers(MaxBytesLen), s \in Strings(MaxStrLen), k \in 0..MaxScalar}

\* how many lines the file accepts before writelines raises OSError
Fuels == {NoFailure} \cup 0..MaxFuel

\* the units serialized to a file that may fail
FailingFileUnits == {CodeUnit(<<128>>, ModuleName, 0), CodeUnit(<<97>>, <<233>>, 1)}

NoCall == [op |-> "none"]

(***************************************************************************)
(* The state machine: one run of generate(), or a Printer constructed on   *)
(* a file and one call of make_string_literal or of a Printer method.      *)
(* Under Spec the file accepts every line; under SpecIO it may raise       *)
(* OSError at any line.                                                    *)
(***************************************************************************)
Init ==
    /\ pc = "start"
    /\ call = NoCall
    /\ level = 0
    /\ file = <<>>
    /\ exc = "none"
    /\ fuel = NoFailure
    /\ scopes = <<>>
    /\ depths = <<>>
    /\ literal = ""

\* the Printer p after a method returned or raised
Returned(p, next) ==
    /\ pc' = next
    /\ level' = p.level
    /\ file' = p.file
    /\ exc' = p.exc
    /\ fuel' = p.fuel
    /\ scopes' = p.scopes
    /\ depths' = p.depths

ThePrinter ==
    [level |-> level, file |-> file, exc |-> exc, fuel |-> fuel, scopes |-> scopes, depths |-> depths]

Call_make_string_literal ==
    /\ pc = "start"
    /\ \E b \in Buffers(MaxLiteralLen) :
        /\ call' = [op |-> "make_string_literal", b |-> b]
        /\ literal' = make_string_literal(b)
    /\ pc' = "done"
    /\ UNCHANGED <<level, file, exc, fuel, scopes, depths>>

Construct(fuels) ==
    /\ pc = "start"
    /\ \E f \in fuels :
        LET p == Printer__init__(f)
        IN Returned(p, IF p.exc = "none" THEN "ready" ELSE "done")
    /\ call' = [op |-> "Printer"]
    /\ UNCHANGED literal

Call_generate_bytes(buffers) ==
    /\ pc = "ready"
    /\ \E name \in SymbolNames, b \in buffers :
        LET p == generate_bytes(ThePrinter, name, b) IN
        /\ call' = [op |-> "generate_bytes", name |-> name, b |-> b]
        /\ Returned(p, "done")
    /\ UNCHANGED literal

Call_generate_unicode(strings) ==
    /\ pc = "ready"
    /\ \E name \in SymbolNames, s \in strings :
        LET p == generate_unicode(ThePrinter, name, s) IN
        /\ call' = [op |-> "generate_unicode", name |-> name, s |-> s]
        /\ Returned(p, "done")
    /\ UNCHANGED literal

Call_generate_code(units) ==
    /\ pc = "ready"
    /\ \E name \in SymbolNames, code \in units :
        LET p == generate_code(ThePrinter, name, code) IN
        /\ call' = [op |-> "generate_code", name |-> name, code |-> code]
        /\ Returned(p, "done")
    /\ UNCHANGED literal

\* generate(filename, file).  open() and compile() are the host's: open may
\* raise OSError, compile may raise SyntaxError or return a code unit.
\* Neither has written anything when it raises: the Printer is constructed
\* after them.
generate(units, fuels) ==
    /\ pc = "start"
    /\ \/ /\ \E e \in {"OSError", "SyntaxError"} : exc' = e
          /\ call' = [op |-> "generate", failed |-> TRUE]
          /\ pc' = "done"
          /\ UNCHANGED <<level, file, fuel, scopes, depths>>
       \/ \E code \in units, f \in fuels :
          LET p == generate_code(Printer__init__(f), "toplevel", code) IN
          /\ call' = [op |-> "generate", failed |-> FALSE, name |-> "toplevel", code |-> code]
          /\ Returned(p, "done")
    /\ UNCHANGED literal

Next ==
    \/ Call_make_string_literal
    \/ Construct({NoFailure})
    \/ Call_generate_bytes(CodeBuffers(MaxBytesLen))
    \/ Call_generate_unicode(Strings(MaxStrLen))
    \/ Call_generate_code(CodeUnits)
    \/ generate(CodeUnits, {NoFailure})

Spec == Init /\ [][Next]_vars

NextIO ==
    \/ Construct(Fuels)
    \/ Call_generate_bytes({code.co_code : code \in FailingFileUnits})
    \/ Call_generate_unicode({code.co_name : code \in FailingFileUnits})
    \/ Call_generate_code(FailingFileUnits)
    \/ generate(FailingFileUnits, Fuels)

SpecIO == Init /\ [][NextIO]_vars

(***************************************************************************)
(* Reading the output back.                                                *)
(***************************************************************************)
StartsWith(s, prefix) == Len(s) >= Len(prefix) /\ SubSeq(s, 1, Len(prefix)) = prefix

EndsWith(s, suffix) == Len(s) >= Len(suffix) /\ SubSeq(s, Len(s) - Len(suffix) + 1, Len(s)) = suffix

\* the number of spaces of line from position i on
RECURSIVE SpacesFrom(_, _)
SpacesFrom(line, i) ==
    IF i <= Len(line) /\ CharAt(line, i) = " " THEN 1 + SpacesFrom(line, i + 1) ELSE 0

\* the number of leading spaces of a line
Indentation(line) == SpacesFrom(line, 1)

\* a line without its indentation and its newline
Stripped(line) == SubSeq(line, Indentation(line) + 1, Len(line) - 1)

IsOpening(line) == EndsWith(line, " {\n")

IsClosing(line) == StartsWith(Stripped(line), "}")

\* the indices of the lines of f that are line
Where(f, line) == {i \in 1..Len(f) : f[i] = line}

\* the indices of the lines of f whose text starts with prefix
WhereField(f, prefix) ==
    {i \in 1..Len(f) : LET n == Indentation(f[i])
                        IN n + Len(prefix) <= Len(f[i]) /\ SubSeq(f[i], n + 1, n + Len(prefix)) = prefix}

\* the first line after line i that closes a top-level initializer
ClosingOf(f, i) == CHOOSE j \in i + 1..Len(f) : f[j] = "};\n" /\ \A k \in i + 1..j - 1 : f[k] # "};\n"

Finished(op) == pc = "done" /\ call.op = op

\* generate_code(name, code) ran to completion, called directly or by generate
CodeGenerated ==
    /\ pc = "done" /\ exc = "none"
    /\ call.op = "generate_code" \/ (call.op = "generate" /\ ~call.failed)

(***************************************************************************)
(* C1.  Reading make_string_literal(b) back with the rules of C string     *)
(* literals gives the bytes of b followed by one zero byte, for every b.   *)
(***************************************************************************)
C1_RoundTrip ==
    Finished("make_string_literal") => ParseCLiteral(literal) = Append(call.b, 0)

(***************************************************************************)
(* C2.  At the end of a run of generate() that succeeded, failed in        *)
(* compile() or failed on a name that is not ASCII-compact, the file is    *)
(* empty or holds the complete artifact.                                   *)
(***************************************************************************)
CompleteArtifact(f) ==
    /\ Len(f) >= 2 /\ f[1] = "#include <Python.h>\n" /\ f[2] = "\n"
    /\ \E i, j, k \in 1..Len(f) :
        /\ i < j /\ j < k
        /\ f[i] = "toplevel_code = {\n"
        /\ f[j] = "static PyUnicodeObject toplevel_name = {\n"
        /\ f[k] = "struct PyCodeObject toplevel = {\n"
        /\ f[Len(f)] = "};\n" /\ ClosingOf(f, k) = Len(f)

C3_EmissionOrder ==
    CodeGenerated =>
        LET N == call.name
            code_decl == Where(file, "static\n")
            code_open == Where(file, N \o "_code = {\n")
            name_open == Where(file, "static PyUnicodeObject " \o N \o "_name = {\n")
            unit_open == Where(file, "struct PyCodeObject " \o N \o " = {\n")
            code_ref == Where(file, "    .co_code = (PyObject *) &" \o N \o "_code,\n")
            name_ref == Where(file, "    .co_name = (PyObject *) &" \o N \o "_name,\n")
        IN /\ \A S \in {code_decl, code_open, name_open, unit_open, code_ref, name_ref} :
                Cardinality(S) = 1
           /\ \A d \in code_decl, c \in code_open, n \in name_open, u \in unit_open :
                /\ d < c
                /\ \A i \in 1..d - 1 : ~IsOpening(file[i]) /\ ~IsClosing(file[i])
                /\ ClosingOf(file, c) < n
                /\ ClosingOf(file, n) < u
                /\ \A r \in code_ref \cup name_ref : u < r /\ r < ClosingOf(file, u)
                /\ ClosingOf(file, u) = Len(file)

C3_Witness == CodeGenerated /\ call.op = "generate_code" /\ Len(call.code.co_code) = 2

(***************************************************************************)
(* C4.  generate_unicode(name, s) raises exactly when s holds a character  *)
(* above U+007F, which is exactly when the character count of s differs    *)
(* from its UTF-8 byte count; it raises before it writes any line, and     *)
(* completes without error otherwise.                                      *)
(***************************************************************************)
C4_RejectsNonAscii ==
    [][(pc = "ready" /\ call'.op = "generate_unicode") =>
        LET s == call'.s
            wide == \E i \in 1..Len(s) : s[i] > 127
        IN /\ wide <=> Len(s) # Len(encode_utf8(s))
           /\ wide => exc' = "AssertionError" /\ file' = file
           /\ ~wide => exc' = "none" /\ Len(file') > Len(file)]_vars

C4_Witness == Finished("generate_unicode") /\ call.s = <<97, 55296>> /\ exc = "AssertionError"

(***************************************************************************)
(* C5.  For a buffer b of length L, generate_bytes declares the array      *)
(* ob_sval[L+1] and emits .ob_size = L+1: one declaration, one element     *)
(* count, both the content length plus one.                                *)
(***************************************************************************)
BytesGenerated ==
    /\ pc = "done" /\ exc = "none"
    /\ call.op = "generate_bytes" \/ call.op = "generate_code" \/ (call.op = "generate" /\ ~call.failed)

BytesInput == IF call.op = "generate_bytes" THEN call.b ELSE call.code.co_code

C5_SizePlusOne ==
    BytesGenerated =>
        LET size == ToString(Len(BytesInput) + 1)
            decl == WhereField(file, "char ob_sval[")
            count == WhereField(file, ".ob_size = ")
        IN /\ Cardinality(decl) = 1 /\ Cardinality(count) = 1
           /\ \A i \in decl : Stripped(file[i]) = "char ob_sval[" \o size \o "];"
           /\ \A i \in count : Stripped(file[i]) = ".ob_size = " \o size \o ","

C5_Witness == BytesGenerated /\ call.op = "generate_bytes" /\ call.b = <<>>

(***************************************************************************)
(* C6.  Every object initializer of the output holds exactly one           *)
(* reference-count field, of value 999999999, immediately followed by the  *)
(* type field of the object's own kind.                                    *)
(***************************************************************************)
\* the lines that open an object initializer: the opening tokens at depth 0
Initializers(f) == {i \in 1..Len(f) : IsOpening(f[i]) /\ Indentation(f[i]) = 0}

TypeOf(opening) ==
    IF StartsWith(opening, "static PyUnicodeObject ") THEN "PyUnicode_Type"
    ELSE IF StartsWith(opening, "struct PyCodeObject ") THEN "PyCode_Type"
    ELSE "PyBytes_Type"

Closed(f, i) == \E j \in i + 1..Len(f) : f[j] = "};\n"

C6_ImmortalHeader ==
    \A i \in Initializers(file) : Closed(file, i) =>
        LET end == ClosingOf(file, i)
            refs == {j \in i..end : StartsWith(Stripped(file[j]), ".ob_refcnt")}
        IN /\ Cardinality(refs) = 1
           /\ \A j \in refs :
                /\ Stripped(file[j]) = ".ob_refcnt = 999999999,"
                /\ Stripped(file[j + 1]) = ".ob_type = &" \o TypeOf(file[i]) \o ","

C6_Witness == CodeGenerated /\ Cardinality(Initializers(file)) = 3

(***************************************************************************)
(* C7.  For an ASCII-compact s, generate_unicode emits .length,            *)
(* .utf8_length and .wstr_length, each once and each len(s); for the       *)
(* 8-character name all three are 8.                                       *)
(***************************************************************************)
UnicodeGenerated ==
    /\ pc = "done" /\ exc = "none"
    /\ call.op = "generate_unicode" \/ call.op = "generate_code" \/ (call.op = "generate" /\ ~call.failed)

UnicodeInput == IF call.op = "generate_unicode" THEN call.s ELSE call.code.co_name

C7_Lengths ==
    UnicodeGenerated =>
        \A fld \in {".length = ", ".utf8_length = ", ".wstr_length = "} :
            LET lines == WhereField(file, fld) IN
            /\ Cardinality(lines) = 1
            /\ \A i \in lines :
                /\ Stripped(file[i]) = fld \o ToString(Len(UnicodeInput)) \o ","
                /\ UnicodeInput = ModuleName => Stripped(file[i]) = fld \o "8,"

C7_Witness == UnicodeGenerated /\ UnicodeInput = ModuleName

(***************************************************************************)
(* C8.  The CompiledUnit initializer lists, in this order and once each:   *)
(* the header (reference count, type), co_flags, co_argcount,              *)
(* co_posonlyargcount, co_kwonlyargcount, co_stacksize, co_firstlineno,    *)
(* .co_code = &N_code, .co_name = &N_name; each scalar is the unit's.      *)
(***************************************************************************)
C8_FieldOrder ==
    CodeGenerated =>
        LET N == call.name
            code == call.code
            unit == Where(file, "struct PyCodeObject " \o N \o " = {\n")
            expected == <<
                "struct PyCodeObject " \o N \o " = {",
                ".ob_base = {",
                ".ob_refcnt = 999999999,",
                ".ob_type = &PyCode_Type,",
                "},",
                ".co_flags = " \o ToString(code.co_flags) \o ",",
                ".co_argcount = " \o ToString(code.co_argcount) \o ",",
                ".co_posonlyargcount = " \o ToString(code.co_posonlyargcount) \o ",",
                ".co_kwonlyargcount = " \o ToString(code.co_kwonlyargcount) \o ",",
                ".co_stacksize = " \o ToString(code.co_stacksize) \o ",",
                ".co_firstlineno = " \o ToString(code.co_firstlineno) \o ",",
                ".co_code = (PyObject *) &" \o N \o "_code,",
                ".co_name = (PyObject *) &" \o N \o "_name,",
                "};" >>
        IN /\ Cardinality(unit) = 1
           /\ \A u \in unit :
                [i \in 1..(Len(file) - u + 1) |-> Stripped(file[u + i - 1])] = expected

C8_Witness == CodeGenerated /\ call.code.co_argcount = 3 /\ call.code.co_posonlyargcount = 1

(***************************************************************************)
(* C9.  Every indent() and block() scope entered at depth d is left at     *)
(* depth d, whether its body completed or raised at any depth inside it;   *)
(* the depth is 0 after every generate_bytes, generate_unicode and         *)
(* generate_code call, returned or raised.                                 *)
(***************************************************************************)
C9_DepthRestored ==
    /\ \A i \in 1..Len(scopes) : scopes[i].left = scopes[i].entered
    /\ pc \in {"ready", "done"} => level = 0

C9_Witness ==
    /\ Finished("generate_code") /\ exc = "OSError"
    /\ \E i \in 1..Len(scopes) : scopes[i].raised /\ scopes[i].entered = 3

(***************************************************************************)
(* C10.  In the output of a successful run, opening and closing tokens     *)
(* are balanced and nested, a closing token has the indentation of its     *)
(* opening token, a line inside a block is one level deeper than the       *)
(* opening token of the innermost block around it, and every line is       *)
(* indented by four spaces times the depth at which it was written.        *)
(***************************************************************************)
\* lines i.. of f, inside the blocks whose opening indentations are in stack
RECURSIVE WellNested(_, _, _)
WellNested(f, i, stack) ==
    IF i > Len(f) THEN stack = <<>>
    ELSE LET ind == Indentation(f[i]) IN
      IF IsClosing(f[i])
      THEN stack # <<>> /\ ind = Head(stack) /\ WellNested(f, i + 1, Tail(stack))
      ELSE /\ stack # <<>> => ind = Head(stack) + 4
           /\ WellNested(f, i + 1, IF IsOpening(f[i]) THEN <<ind>> \o stack ELSE stack)

C10_BlockStructure ==
    /\ \A i \in 1..Len(file) : Indentation(file[i]) = 4 * depths[i]
    /\ (pc = "done" /\ exc = "none") => WellNested(file, 1, <<>>)

C10_Witness == CodeGenerated /\ \E i \in 1..Len(file) : depths[i] = 4 /\ IsOpening(file[i - 1])

====
